---- MODULE Spec2Model ----
(***************************************************************************)
(* Model of missing_modules.py: the PackageManager pipeline                *)
(* (verification in a thread pool, sequential and pooled installation,     *)
(* manifest generation) and the command-line entry point main().           *)
(*                                                                         *)
(* The environment of a run is fixed in Init: the set of names the scan    *)
(* extracted (all_imports), the outcome of importlib.util.find_spec for    *)
(* each of them (probe), the size of the worker pool (workers), and the    *)
(* caller (mode, install).  The outcome of each pip invocation is chosen   *)
(* when the invocation happens.                                            *)
(***************************************************************************)
EXTENDS Naturals, Integers, Sequences, FiniteSets, TLC

VARIABLES
    mode,             \* "main": main() without --option; "process": a caller of process_packages()
    install,          \* args.install
    all_imports,      \* the union of extract_imports over the scanned files
    probe,            \* name -> outcome of importlib.util.find_spec(name)
    workers,          \* max_workers of the ThreadPoolExecutor
    pc,               \* position of the calling thread
    cont,             \* where the calling thread goes when the verification batch is over
    vtask,            \* name -> state of its verify_package future
    vresult,          \* name -> result of its verify_package future
    packages,         \* self.packages
    missing_packages, \* the list detect_missing_packages builds
    idx,              \* position of the loop of install_missing_packages
    results,          \* the dict install_missing_packages builds
    itask,            \* import name -> state of its install_package future
    ires,             \* import name -> outcome of its install_package future
    calls,            \* the install_package invocations made so far, in order
    manifest,         \* the requirements file
    exit_status,      \* exit status of the process
    returned,         \* what process_packages returned ("None" until it returns)
    raised,           \* exception that left the entry point ("None" when none)
    \* interactive_mode
    mpc,              \* position of the menu loop
    turns,            \* menu choices taken so far
    ops,              \* the PackageManager operations the menu has run, in order
    \* is_valid_package_name, on its own
    vname,            \* the name it is given
    vout,             \* what it returned
    \* extract_imports, on its own
    xstmts,           \* the statements the file was written from
    xlines,           \* the lines of the file it is given
    xpc,              \* "ready" before the call, "done" after it
    ximports,         \* the set it returned
    \* the scan of detect_missing_packages over a tree
    python_files,     \* the files find_python_files returned
    file_i,           \* position of the loop over the files
    scan_imports      \* all_imports of the scan, as the loop builds it

pipeline_vars == <<mode, install, all_imports, probe, workers, pc, cont, vtask,
                   vresult, packages, missing_packages, idx, results, itask,
                   ires, calls, manifest, exit_status, returned, raised>>

menu_vars == <<mpc, turns, ops>>

valid_vars == <<vname, vout>>

extract_vars == <<xstmts, xlines, xpc, ximports>>

scan_vars == <<python_files, file_i, scan_imports>>

text_vars == <<valid_vars, extract_vars, scan_vars>>

vars == <<pipeline_vars, menu_vars, text_vars>>

\* The environment of the run: nothing changes it.
env == <<mode, install, all_imports, probe, workers>>

(***************************************************************************)
(* Bounds of the model.                                                    *)
(***************************************************************************)
MaxImports == 2
MaxWorkers == 2
MaxTurns == 3
MaxNameLen == 3

\* Python's None, for the Optional[str] fields.
None == "None"

\* The names a scan may extract.  "OS" passes is_valid_package_name (its test
\* against STDLIB_PACKAGES is case-sensitive) and is stdlib for verify_package
\* (whose test is case-insensitive).
Names == {"OS", "PIL", "Pillow", "new", "requests"}

STDLIB_PACKAGES ==
    {"abc", "argparse", "array", "ast", "asyncio", "atexit", "base64",
     "binascii", "builtins", "bz2", "calendar", "cgi", "chunk", "cmd",
     "code", "codecs", "collections", "colorsys", "configparser", "contextlib",
     "copy", "copyreg", "csv", "datetime", "decimal", "difflib", "dis",
     "email", "encodings", "enum", "errno", "faulthandler", "fcntl", "filecmp",
     "fileinput", "fnmatch", "fractions", "ftplib", "functools", "gc",
     "getopt", "getpass", "gettext", "glob", "graphlib", "gzip", "hashlib",
     "heapq", "hmac", "html", "http", "imaplib", "imghdr", "importlib",
     "inspect", "io", "ipaddress", "itertools", "json", "keyword", "linecache",
     "locale", "logging", "lzma", "mailbox", "marshal", "math", "mimetypes",
     "mmap", "modulefinder", "multiprocessing", "netrc", "numbers", "operator",
     "optparse", "os", "pathlib", "pdb", "pickle", "pickletools", "pipes",
     "pkgutil", "platform", "plistlib", "poplib", "pprint", "profile",
     "pstats", "pty", "pwd", "py_compile", "pyclbr", "pydoc", "queue",
     "quopri", "random", "re", "readline", "reprlib", "resource", "rlcompleter",
     "runpy", "sched", "secrets", "select", "selectors", "shelve", "shlex",
     "shutil", "signal", "site", "smtpd", "smtplib", "sndhdr", "socket",
     "socketserver", "sqlite3", "ssl", "stat", "statistics", "string",
     "stringprep", "struct", "subprocess", "sys", "sysconfig", "tabnanny",
     "tarfile", "tempfile", "termios", "textwrap", "threading", "time",
     "timeit", "token", "tokenize", "trace", "traceback", "tracemalloc",
     "types", "typing", "unicodedata", "unittest", "urllib", "uuid", "venv",
     "warnings", "wave", "weakref", "webbrowser", "winreg", "winsound",
     "wsgiref", "xml", "xmlrpc", "zipapp", "zipfile", "zipimport", "zlib"}

\* PACKAGE_MAPPINGS as a set of <<import name, install name>> pairs.
PACKAGE_MAPPINGS == {<<"PIL", "Pillow">>, <<"gi", "PyGObject">>}

\* str.lower() on the names of the model (the table's entries are lower case).
Lower(s) ==
    CASE s = "OS" -> "os"
      [] s = "PIL" -> "pil"
      [] s = "Pillow" -> "pillow"
      [] s = "Y" -> "y"
      [] OTHER -> s

\* PACKAGE_MAPPINGS.get(package_name, package_name)
MappingGet(package_name) ==
    IF \E p \in PACKAGE_MAPPINGS : p[1] = package_name
    THEN (CHOOSE p \in PACKAGE_MAPPINGS : p[1] = package_name)[2]
    ELSE package_name

\* What importlib.util.find_spec can do: return a spec, return None, or raise.
ProbeOutcomes ==
    {"spec", "None", "ImportError", "AttributeError", "ValueError", "Exception"}

\* What subprocess.run(..., check=True) can do: the child exits with zero, the
\* child exits with a non-zero status (CalledProcessError), or the child
\* cannot be launched (OSError).
InstallOutcomes == {"zero", "nonzero", "OSError"}

\* PackageInfo(import_name=...) with the dataclass defaults.
PackageInfo(import_name) ==
    [kind |-> "PackageInfo", import_name |-> import_name, install_name |-> None,
     is_stdlib |-> FALSE, is_available |-> FALSE, install_status |-> None,
     error_message |-> None]

\* A Python bool stored where a PackageInfo is expected.
Bool(b) == [kind |-> "bool", value |-> b]

\* Attribute access of a PackageInfo field: a bool has none (AttributeError).
HasAttr(v) == v.kind = "PackageInfo"

\* The str(e) of the exception the generic handler of verify_package records.
ErrText == "error"

(***************************************************************************)
(* verify_package                                                          *)
(***************************************************************************)
\* package_name.lower() in (p.lower() for p in self.STDLIB_PACKAGES)
IsStdlib(package_name) ==
    Lower(package_name) \in {Lower(p) : p \in STDLIB_PACKAGES}

\* Mutant: the install name is set before the stdlib test returns.
verify_package_MappedFirst(package_name, outcome) ==
    LET info == [PackageInfo(package_name) EXCEPT
                    !.install_name = MappingGet(package_name)]
    IN  IF IsStdlib(package_name)
        THEN [info EXCEPT !.is_stdlib = TRUE, !.is_available = TRUE]
        ELSE [info EXCEPT !.is_available = (outcome = "spec"),
                          !.error_message =
                              IF outcome = "Exception" THEN ErrText ELSE None]

\* Mutant: the generic handler logs the exception and drops its text.
verify_package_NoMessage(package_name, outcome) ==
    LET info == PackageInfo(package_name)
    IN  IF IsStdlib(package_name)
        THEN [info EXCEPT !.is_stdlib = TRUE, !.is_available = TRUE]
        ELSE [info EXCEPT !.install_name = MappingGet(package_name),
                          !.is_available = (outcome = "spec")]

\* verify_package(package_name), find_spec behaving as `outcome` says.
verify_package(package_name, outcome) ==
    LET info == PackageInfo(package_name)
    IN  IF IsStdlib(package_name)
        THEN [info EXCEPT !.is_stdlib = TRUE, !.is_available = TRUE]
        ELSE LET mapped == [info EXCEPT
                               !.install_name = MappingGet(package_name)]
             IN  CASE outcome = "spec" ->
                        [mapped EXCEPT !.is_available = TRUE]
                   [] outcome = "None" ->
                        [mapped EXCEPT !.is_available = FALSE]
                   [] outcome \in {"ImportError", "AttributeError", "ValueError"} ->
                        [mapped EXCEPT !.is_available = FALSE]
                   [] OTHER ->
                        [mapped EXCEPT !.error_message = ErrText,
                                       !.is_available = FALSE]

(***************************************************************************)
(* install_package                                                         *)
(***************************************************************************)
\* The call's result: the exception that leaves it (None when it returns) and
\* the value it returns.
install_package(outcome) ==
    CASE outcome = "zero" -> [raised |-> None, value |-> TRUE]
      [] outcome = "nonzero" -> [raised |-> None, value |-> FALSE]
      [] OTHER -> [raised |-> outcome, value |-> FALSE]

\* One invocation of install_package, as recorded in calls: the record it was
\* made for, the name it was given, what pip did and what the call did.
Call(import_name, package_name, outcome) ==
    [import_name |-> import_name, package_name |-> package_name,
     outcome |-> outcome,
     raised |-> install_package(outcome).raised,
     value |-> install_package(outcome).value]

(***************************************************************************)
(* generate_requirements                                                   *)
(***************************************************************************)
\* Python's order on str (by code point) on the install names of the model.
Rank(s) ==
    CASE s = "OS" -> 1
      [] s = "PIL" -> 2
      [] s = "Pillow" -> 3
      [] s = "PyGObject" -> 4
      [] s = "new" -> 5
      [] OTHER -> 6

\* The keys of the entries the list comprehension keeps; one list element each.
Requirements(pkgs) ==
    {n \in DOMAIN pkgs :
        /\ pkgs[n].is_available
        /\ ~pkgs[n].is_stdlib
        /\ pkgs[n].install_name # None}

\* sorted(requirements): the install names of the kept entries, ascending,
\* one element per entry.
RECURSIVE sorted(_, _)
sorted(pkgs, keys) ==
    IF keys = {} THEN <<>>
    ELSE LET k == CHOOSE k \in keys :
                    \A j \in keys :
                        Rank(pkgs[k].install_name) <= Rank(pkgs[j].install_name)
         IN  <<pkgs[k].install_name>> \o sorted(pkgs, keys \ {k})

NoFile == [written |-> FALSE, lines |-> <<>>]

\* generate_requirements(requirements_file) on self.packages = pkgs and the
\* file as it is: the exception that leaves the call and the file afterwards.
generate_requirements(pkgs, file) ==
    IF \E n \in DOMAIN pkgs : ~HasAttr(pkgs[n])
    THEN [raised |-> "AttributeError", file |-> file]
    ELSE IF Requirements(pkgs) # {}
         THEN [raised |-> None,
               file |-> [written |-> TRUE,
                         lines |-> sorted(pkgs, Requirements(pkgs))]]
         ELSE [raised |-> None, file |-> file]

(***************************************************************************)
(* The state machine                                                       *)
(***************************************************************************)
NoTasks == [n \in Names |-> "none"]

\* The menu is not running.
MenuIdle ==
    /\ mpc = "idle"
    /\ turns = 0
    /\ ops = << >>

\* No function is run on its own and no tree is scanned on its own.
ValidIdle ==
    /\ vname = << >>
    /\ vout = "idle"

ExtractIdle ==
    /\ xstmts = << >>
    /\ xlines = << >>
    /\ xpc = "idle"
    /\ ximports = {}

ScanIdle ==
    /\ python_files = << >>
    /\ file_i = 0
    /\ scan_imports = {}

TextIdle == ValidIdle /\ ExtractIdle /\ ScanIdle

\* The environments of a run.
ImportSets == {S \in SUBSET Names : Cardinality(S) <= MaxImports}

Init ==
    /\ mode \in {"main", "process"}
    /\ install \in BOOLEAN
    /\ mode = "process" => install = FALSE
    /\ all_imports \in ImportSets
    /\ probe \in [all_imports -> ProbeOutcomes]
    /\ \A n \in all_imports : IsStdlib(n) => probe[n] = "spec"
    /\ workers \in 1..MaxWorkers
    /\ pc = "start"
    /\ cont = "none"
    /\ vtask = NoTasks
    /\ vresult = << >>
    /\ packages = << >>
    /\ missing_packages = << >>
    /\ idx = 1
    /\ results = << >>
    /\ itask = NoTasks
    /\ ires = << >>
    /\ calls = << >>
    /\ manifest = NoFile
    /\ exit_status = 0
    /\ returned = None
    /\ raised = None
    /\ MenuIdle
    /\ TextIdle

\* d[k] = v on a dict held as a function.
DictSet(d, k, v) == [x \in DOMAIN d \cup {k} |-> IF x = k THEN v ELSE d[x]]

Running(tasks) == Cardinality({n \in Names : tasks[n] = "running"})

\* executor.submit(self.verify_package, pkg) for pkg in all_imports: a new
\* batch of futures; `next` is where the caller goes after the with block.
SubmitVerify(next) ==
    /\ vtask' = [n \in Names |-> IF n \in all_imports THEN "queued" ELSE "none"]
    /\ vresult' = << >>
    /\ missing_packages' = << >>
    /\ cont' = next
    /\ pc' = "verify"

\* main(), command-line mode: `missing_packages = detect_missing_packages()`.
MainStart ==
    /\ pc = "start"
    /\ mode = "main"
    /\ SubmitVerify("main")
    /\ UNCHANGED <<env, menu_vars, text_vars, packages, idx,
                   results, itask, ires, calls, manifest, exit_status, returned, raised>>

\* A caller enters process_packages().
ProcessStart ==
    /\ pc = "start"
    /\ mode = "process"
    /\ SubmitVerify("process")
    /\ UNCHANGED <<env, menu_vars, text_vars, packages, idx,
                   results, itask, ires, calls, manifest, exit_status, returned, raised>>

\* A worker of the pool takes a queued verify_package task.
VerifyStart(n) ==
    /\ vtask[n] = "queued"
    /\ Running(vtask) < workers
    /\ vtask' = [vtask EXCEPT ![n] = "running"]
    /\ UNCHANGED <<env, menu_vars, text_vars, pc, cont, vresult,
                   packages, missing_packages, idx, results, itask, ires, calls,
                   manifest, exit_status, returned, raised>>

\* The task returns: its future holds verify_package's result.
VerifyFinish(n) ==
    /\ vtask[n] = "running"
    /\ vtask' = [vtask EXCEPT ![n] = "done"]
    /\ vresult' = DictSet(vresult, n, verify_package(n, probe[n]))
    /\ UNCHANGED <<env, menu_vars, text_vars, pc, cont,
                   packages, missing_packages, idx, results, itask, ires, calls,
                   manifest, exit_status, returned, raised>>

\* Mutant: the results are stored under the install name.
CollectInto_ByInstallName(pkgs, package, info) ==
    DictSet(pkgs, IF info.install_name = None THEN package ELSE info.install_name,
            info)

\* self.packages[package] = info
CollectInto(pkgs, package, info) == DictSet(pkgs, package, info)

\* not info.is_available and not info.is_stdlib
IsMissing(info) == ~info.is_available /\ ~info.is_stdlib

\* One turn of `for future in as_completed(future_to_package)`: the caller
\* takes a finished future and stores its result.
VerifyCollect(n) ==
    /\ pc = "verify"
    /\ vtask[n] = "done"
    /\ vtask' = [vtask EXCEPT ![n] = "collected"]
    /\ IF cont = "process"
       THEN /\ packages' = CollectInto(packages, n, vresult[n])
            /\ UNCHANGED missing_packages
       ELSE /\ missing_packages' =
                 IF IsMissing(vresult[n])
                 THEN Append(missing_packages, vresult[n])
                 ELSE missing_packages
            /\ UNCHANGED packages
    /\ UNCHANGED <<env, menu_vars, text_vars, pc, cont, vresult,
                   idx, results, itask, ires, calls, manifest, exit_status, returned, raised>>

\* Mutant: the loop over the futures stops at the first result.
VerifyLoopOver_First ==
    \/ all_imports = {}
    \/ \E n \in all_imports : vtask[n] = "collected"

\* as_completed is exhausted: every future of the batch has been yielded.
VerifyLoopOver == \A n \in all_imports : vtask[n] = "collected"

\* detect_missing_packages returns to main: with --install and something
\* missing, install_missing_packages starts and detects once more.
MainInstallMissing ==
    /\ pc = "verify"
    /\ cont = "main"
    /\ VerifyLoopOver
    /\ missing_packages # << >>
    /\ install
    /\ SubmitVerify("install")
    /\ results' = << >>
    /\ UNCHANGED <<env, menu_vars, text_vars, packages, idx, itask, ires, calls, manifest,
                   exit_status, returned, raised>>

\* detect_missing_packages returns to main and nothing is to be installed.
MainNoInstall ==
    /\ pc = "verify"
    /\ cont = "main"
    /\ VerifyLoopOver
    /\ ~(missing_packages # << >> /\ install)
    /\ pc' = "generate"
    /\ UNCHANGED <<env, menu_vars, text_vars, cont, vtask, vresult, packages, missing_packages, idx,
                   results, itask, ires, calls, manifest, exit_status, returned,
                   raised>>

\* detect_missing_packages returns to install_missing_packages.
InstallLoopEnter ==
    /\ pc = "verify"
    /\ cont = "install"
    /\ VerifyLoopOver
    /\ pc' = "install_loop"
    /\ idx' = 1
    /\ UNCHANGED <<env, menu_vars, text_vars, cont, vtask, vresult, packages, missing_packages,
                   results, itask, ires, calls, manifest, exit_status, returned,
                   raised>>

\* The loop of install_missing_packages skips the name "new".
InstallSkip ==
    /\ pc = "install_loop"
    /\ idx <= Len(missing_packages)
    /\ Lower(missing_packages[idx].import_name) = "new"
    /\ idx' = idx + 1
    /\ UNCHANGED <<env, menu_vars, text_vars, pc, cont, vtask, vresult, packages, missing_packages,
                   results, itask, ires, calls, manifest, exit_status, returned,
                   raised>>

\* package_info.install_name or package_info.import_name
InstallNameOf(package_info) ==
    IF package_info.install_name # None
    THEN package_info.install_name
    ELSE package_info.import_name

\* One turn of the loop of install_missing_packages.  An exception of
\* install_package leaves install_missing_packages and is caught by main,
\* which exits with status 1.
InstallOne(outcome) ==
    /\ pc = "install_loop"
    /\ idx <= Len(missing_packages)
    /\ Lower(missing_packages[idx].import_name) # "new"
    /\ LET install_name == InstallNameOf(missing_packages[idx])
           r == install_package(outcome)
       IN  /\ calls' = Append(calls, Call(missing_packages[idx].import_name,
                                       install_name, outcome))
           /\ IF r.raised = None
              THEN /\ results' = DictSet(results, install_name, r.value)
                   /\ idx' = idx + 1
                   /\ UNCHANGED <<pc, exit_status>>
              ELSE /\ pc' = "done"
                   /\ exit_status' = 1
                   /\ UNCHANGED <<results, idx>>
    /\ UNCHANGED <<env, menu_vars, text_vars, cont, vtask, vresult, packages, missing_packages,
                   itask, ires, manifest, returned, raised>>

\* install_missing_packages returns its results, which main drops.
InstallLoopEnd ==
    /\ pc = "install_loop"
    /\ idx > Len(missing_packages)
    /\ pc' = "generate"
    /\ UNCHANGED <<env, menu_vars, text_vars, cont, vtask, vresult, packages, missing_packages, idx,
                   results, itask, ires, calls, manifest, exit_status, returned,
                   raised>>

\* main: generate_requirements(req_path), then the end of main (status 0); an
\* exception is caught by main, which exits with status 1.
MainGenerate ==
    /\ pc = "generate"
    /\ mode = "main"
    /\ LET r == generate_requirements(packages, manifest)
       IN  /\ manifest' = r.file
           /\ exit_status' = IF r.raised = None THEN 0 ELSE 1
    /\ pc' = "done"
    /\ UNCHANGED <<env, menu_vars, text_vars, cont, vtask, vresult, packages, missing_packages, idx,
                   results, itask, ires, calls, returned, raised>>

\* process_packages: the keys of the records of to_install.
ToInstall(pkgs) ==
    {n \in DOMAIN pkgs :
        /\ pkgs[n].is_available
        /\ ~pkgs[n].is_stdlib
        /\ pkgs[n].install_name # None}

\* process_packages: to_install is empty, the method returns True.
ProcessNoInstall ==
    /\ pc = "verify"
    /\ cont = "process"
    /\ VerifyLoopOver
    /\ ToInstall(packages) = {}
    /\ returned' = "True"
    /\ pc' = "generate"
    /\ UNCHANGED <<env, menu_vars, text_vars, cont, vtask, vresult, packages, missing_packages, idx,
                   results, itask, ires, calls, manifest, exit_status, raised>>

\* process_packages: executor.submit(self.install_package, info.install_name)
\* for info in to_install.
ProcessSubmitInstall ==
    /\ pc = "verify"
    /\ cont = "process"
    /\ VerifyLoopOver
    /\ ToInstall(packages) # {}
    /\ itask' = [n \in Names |->
                    IF n \in ToInstall(packages) THEN "queued" ELSE "none"]
    /\ pc' = "installing"
    /\ UNCHANGED <<env, menu_vars, text_vars, cont, vtask, vresult, packages, missing_packages, idx,
                   results, ires, calls, manifest, exit_status, returned, raised>>

\* A worker of the pool takes a queued install_package task.
InstallStart(n) ==
    /\ itask[n] = "queued"
    /\ Running(itask) < workers
    /\ itask' = [itask EXCEPT ![n] = "running"]
    /\ UNCHANGED <<env, menu_vars, text_vars, pc, cont, vtask, vresult, packages, missing_packages,
                   idx, results, ires, calls, manifest, exit_status, returned,
                   raised>>

\* The task ends: its future holds what install_package returned or raised.
InstallFinish(n, outcome) ==
    /\ itask[n] = "running"
    /\ itask' = [itask EXCEPT ![n] = "done"]
    /\ ires' = DictSet(ires, n, install_package(outcome))
    /\ calls' = Append(calls, Call(n, packages[n].install_name, outcome))
    /\ UNCHANGED <<env, menu_vars, text_vars, pc, cont, vtask, vresult, packages, missing_packages,
                   idx, results, manifest, exit_status, returned, raised>>

\* One turn of `for future in as_completed(future_to_info)`: future.result()
\* is stored under the import name, or its exception is logged.
InstallCollect(n) ==
    /\ pc = "installing"
    /\ itask[n] = "done"
    /\ itask' = [itask EXCEPT ![n] = "collected"]
    /\ packages' = IF ires[n].raised = None
                   THEN DictSet(packages, n, Bool(ires[n].value))
                   ELSE packages
    /\ UNCHANGED <<env, menu_vars, text_vars, pc, cont, vtask, vresult, missing_packages, idx,
                   results, ires, calls, manifest, exit_status, returned, raised>>

\* process_packages: the summary reads install_status of every value of
\* self.packages (AttributeError on a bool) and returns `not bool(failed)`.
ProcessSummary ==
    /\ pc = "installing"
    /\ \A n \in Names : itask[n] \in {"none", "collected"}
    /\ IF \E n \in DOMAIN packages : ~HasAttr(packages[n])
       THEN /\ raised' = "AttributeError"
            /\ pc' = "done"
            /\ UNCHANGED returned
       ELSE /\ returned' =
                 IF \E n \in DOMAIN packages : packages[n].install_status = "False"
                 THEN "False" ELSE "True"
            /\ pc' = "generate"
            /\ UNCHANGED raised
    /\ UNCHANGED <<env, menu_vars, text_vars, cont, vtask, vresult, packages, missing_packages, idx,
                   results, itask, ires, calls, manifest, exit_status>>

\* The caller of process_packages writes the manifest of what it collected.
ProcessGenerate ==
    /\ pc = "generate"
    /\ mode = "process"
    /\ LET r == generate_requirements(packages, manifest)
       IN  /\ manifest' = r.file
           /\ raised' = r.raised
    /\ pc' = "done"
    /\ UNCHANGED <<env, menu_vars, text_vars, cont, vtask, vresult, packages, missing_packages, idx,
                   results, itask, ires, calls, exit_status, returned>>

Next ==
    \/ MainStart
    \/ ProcessStart
    \/ \E n \in Names : VerifyStart(n)
    \/ \E n \in Names : VerifyFinish(n)
    \/ \E n \in Names : VerifyCollect(n)
    \/ MainInstallMissing
    \/ MainNoInstall
    \/ InstallLoopEnter
    \/ InstallSkip
    \/ \E outcome \in InstallOutcomes : InstallOne(outcome)
    \/ InstallLoopEnd
    \/ MainGenerate
    \/ ProcessNoInstall
    \/ ProcessSubmitInstall
    \/ \E n \in Names : InstallStart(n)
    \/ \E n \in Names, outcome \in InstallOutcomes : InstallFinish(n, outcome)
    \/ \E n \in Names : InstallCollect(n)
    \/ ProcessSummary
    \/ ProcessGenerate

Spec == Init /\ [][Next]_vars

(***************************************************************************)
(* Properties                                                              *)
(***************************************************************************)
\* The values of a sequence.
Range(q) == {q[i] : i \in DOMAIN q}

\* An install_package invocation that did not succeed.
FailedCall(c) == c.raised # None \/ ~c.value

\* C1: after a complete command-line run, the manifest holds the install name
\* of every scanned import verified as non-stdlib and available (so a manifest
\* is written whenever there is one).
C1_ManifestHoldsAvailable ==
    (mode = "main" /\ pc = "done" /\ exit_status = 0) =>
        \A n \in all_imports :
            LET info == verify_package(n, probe[n])
            IN  (info.is_available /\ ~info.is_stdlib) =>
                    /\ manifest.written
                    /\ info.install_name \in Range(manifest.lines)

\* C2: the lines of a written manifest are strictly ascending: sorted, and no
\* line twice, also when two import names share an install name.
C2_ManifestSortedNoDuplicate ==
    manifest.written =>
        \A i, j \in DOMAIN manifest.lines :
            i < j => Rank(manifest.lines[i]) < Rank(manifest.lines[j])

\* C3: a command-line run with --install ends with a non-zero status if an
\* installation failed, and with zero only if none failed and no error was
\* left unhandled.
C3_ExitStatusReportsFailure ==
    (mode = "main" /\ install /\ pc = "done") =>
        /\ (\E c \in Range(calls) : FailedCall(c)) => exit_status # 0
        /\ exit_status = 0 => \A c \in Range(calls) : c.raised = None /\ c.value

\* C4: every install_package invocation returns (raises nothing), and returns
\* true exactly when pip exited with zero.
C4_InstallPackageNeverRaises ==
    \A c \in Range(calls) :
        /\ c.raised = None
        /\ c.value <=> (c.outcome = "zero")

\* C5: once an installation stage with a failed installation is over, every
\* other name of the stage has had install_package invoked and its outcome
\* recorded, in install_missing_packages and in process_packages.
C5_FailureDoesNotStopOthers ==
    /\ (mode = "main" /\ cont = "install" /\ pc \in {"generate", "done"}
            /\ \E c \in Range(calls) : FailedCall(c)) =>
        \A info \in Range(missing_packages) :
            Lower(info.import_name) # "new" =>
                /\ \E c \in Range(calls) : c.import_name = info.import_name
                /\ (\A c \in Range(calls) :
                        c.import_name = info.import_name => c.raised = None)
                    => InstallNameOf(info) \in DOMAIN results
    /\ (mode = "process" /\ pc \in {"generate", "done"}
            /\ \E c \in Range(calls) : FailedCall(c)) =>
        \A n \in Names :
            itask[n] # "none" =>
                /\ itask[n] = "collected"
                /\ \E c \in Range(calls) : c.import_name = n
                /\ n \in DOMAIN ires

\* An installation has been submitted or made.
InstallStarted == calls # << >> \/ \E n \in Names : itask[n] # "none"

\* C6: no installation is started before every verification task of the batch
\* has finished and its result has been collected.
C6_StagesNeverOverlap ==
    InstallStarted => \A n \in all_imports : vtask[n] = "collected"

C6_Witness ==
    /\ Cardinality(all_imports) >= 2
    /\ \E n \in Names : itask[n] = "running"
    /\ \E n \in Names : itask[n] = "queued"

\* C7: when a verification batch is over, what it produced is the function of
\* the names and of their probes' outcomes alone: self.packages in
\* process_packages, the set of missing records in detect_missing_packages,
\* for every pool size and every order of completion.
C7_VerificationOrderIndependent ==
    (pc = "verify" /\ VerifyLoopOver) =>
        IF cont = "process"
        THEN packages = [n \in all_imports |-> verify_package(n, probe[n])]
        ELSE /\ Range(missing_packages) =
                    {r \in {verify_package(n, probe[n]) : n \in all_imports} :
                        ~r.is_available /\ ~r.is_stdlib}
             /\ \A i, j \in DOMAIN missing_packages :
                    missing_packages[i] = missing_packages[j] => i = j

C7_Witness ==
    /\ pc = "verify"
    /\ VerifyLoopOver
    /\ cont = "process"
    /\ workers > 1
    /\ {"PIL", "Pillow"} \subseteq DOMAIN packages

\* The records verification has produced so far.
VerifiedRecords ==
    Range(vresult) \cup Range(missing_packages)
        \cup {packages[n] : n \in {m \in DOMAIN packages : HasAttr(packages[m])}}

\* C8: a record of verification that is stdlib is available and has no install
\* name; one that is not stdlib has the install name of the rename table when
\* the table has its import name, and its import name otherwise.
C8_RecordInvariant ==
    \A r \in VerifiedRecords :
        /\ r.is_stdlib => r.is_available /\ r.install_name = None
        /\ ~r.is_stdlib =>
              /\ \A p \in PACKAGE_MAPPINGS :
                    p[1] = r.import_name => r.install_name = p[2]
              /\ (\A p \in PACKAGE_MAPPINGS : p[1] # r.import_name)
                    => r.install_name = r.import_name

C8_Witness ==
    /\ \E r \in VerifiedRecords : r.is_stdlib
    /\ \E r \in VerifiedRecords : r.import_name = "PIL" /\ r.install_name = "Pillow"

\* The outcomes of find_spec that are exceptions.
ProbeRaises(outcome) == outcome \notin {"spec", "None"}

\* The exceptions the first handler of verify_package takes.
QuietExceptions == {"ImportError", "AttributeError", "ValueError"}

\* The batch goes on: the stage is never stuck, and once the caller has left
\* it every name has its record.
BatchCompletes ==
    /\ pc = "verify" => ENABLED Next
    /\ pc \notin {"start", "verify"} => DOMAIN vresult = all_imports

\* C9 as stated: a probe that raises any exception leaves the record
\* unavailable with an error message, and the batch still completes.
C9_ProbeExceptionRecorded ==
    /\ \A n \in DOMAIN vresult :
          (~vresult[n].is_stdlib /\ ProbeRaises(probe[n])) =>
              /\ ~vresult[n].is_available
              /\ vresult[n].error_message # None
    /\ BatchCompletes

\* C9 as amended: a probe that raises leaves the record unavailable; the
\* error message is set exactly when the exception is not an ImportError, an
\* AttributeError or a ValueError; and the batch still completes.
C9_ProbeExceptionUnavailable ==
    /\ \A n \in DOMAIN vresult :
          (~vresult[n].is_stdlib /\ ProbeRaises(probe[n])) =>
              /\ ~vresult[n].is_available
              /\ (vresult[n].error_message # None)
                    <=> (probe[n] \notin QuietExceptions)
    /\ BatchCompletes

C9_Witness ==
    /\ pc = "done"
    /\ \E n, m \in DOMAIN vresult :
          /\ probe[n] = "Exception"
          /\ vresult[n].error_message # None
          /\ probe[m] = "ImportError"
          /\ ~vresult[m].is_available

\* C10: at the end of a run, the record of a name whose installation pip
\* reported as failed is stored under its import name, with install_status
\* failed and an error message.
C10_FailedInstallRecorded ==
    pc = "done" =>
        \A c \in Range(calls) :
            c.outcome = "nonzero" =>
                /\ c.import_name \in DOMAIN packages
                /\ HasAttr(packages[c.import_name])
                /\ packages[c.import_name].install_status = "False"
                /\ packages[c.import_name].error_message # None

\* C16: install_package is only ever invoked for a record that is not stdlib
\* and whose local probe did not succeed.
C16_InstallOnlyMissing ==
    \A c \in Range(calls) :
        /\ ~IsStdlib(c.import_name)
        /\ probe[c.import_name] # "spec"

\* C18: when install_missing_packages has returned, every package its detection
\* reported has had exactly one install_package invocation, under its install
\* name; no install name was installed twice; and the result map has one entry
\* per reported package.
C18_InstallEachMissingOnce ==
    (mode = "main" /\ cont = "install" /\ pc = "generate") =>
        /\ \A info \in Range(missing_packages) :
              /\ Cardinality({i \in DOMAIN calls :
                                 calls[i].import_name = info.import_name}) = 1
              /\ \A c \in Range(calls) :
                    c.import_name = info.import_name
                        => c.package_name = info.install_name
        /\ \A i, j \in DOMAIN calls :
              calls[i].package_name = calls[j].package_name => i = j
        /\ Cardinality(DOMAIN results) = Len(missing_packages)

(***************************************************************************)
(* interactive_mode: the menu loop, on a PackageManager whose pipeline     *)
(* state is as constructed.  Each operation of the manager either returns  *)
(* or raises; what it does besides is in the specification Spec.           *)
(***************************************************************************)
\* The pipeline state after PackageManager.__init__, no run of Spec going on.
PipelineIdle ==
    /\ mode = "idle"
    /\ install = FALSE
    /\ all_imports = {}
    /\ probe = << >>
    /\ workers = 1
    /\ pc = "idle"
    /\ cont = "none"
    /\ vtask = NoTasks
    /\ vresult = << >>
    /\ packages = << >>
    /\ missing_packages = << >>
    /\ idx = 1
    /\ results = << >>
    /\ itask = NoTasks
    /\ ires = << >>
    /\ calls = << >>
    /\ manifest = NoFile
    /\ exit_status = 0
    /\ returned = None
    /\ raised = None

\* What the user can type at a prompt of the menu.
MenuInputs == {"0", "1", "2", "3", "4", "5", "6", "7", "8", "x"}
ConfirmInputs == {"y", "Y", "n", ""}

\* One operation the menu ran: its name, the menu choice it belongs to and
\* the answer to the confirmation prompt of that choice ("unasked" when the
\* choice has none).
Op(name, choice, confirm) == [op |-> name, choice |-> choice, confirm |-> confirm]

InitMenu ==
    /\ PipelineIdle
    /\ TextIdle
    /\ mpc = "menu"
    /\ turns = 0
    /\ ops = << >>

\* display_menu: an input that is no number between 1 and 7 is asked again.
MenuInvalid(raw) ==
    /\ mpc = "menu"
    /\ turns < MaxTurns
    /\ raw \notin {"1", "2", "3", "4", "5", "6", "7"}
    /\ turns' = turns + 1
    /\ UNCHANGED <<pipeline_vars, text_vars, mpc, ops>>

\* Choices 1, 2 and 4: one operation, whose exception the loop catches.
MenuSingle(raw) ==
    /\ mpc = "menu"
    /\ turns < MaxTurns
    /\ raw \in {"1", "2", "4"}
    /\ turns' = turns + 1
    /\ ops' = Append(ops,
                Op(CASE raw = "1" -> "detect_missing_packages"
                     [] raw = "2" -> "install_missing_packages"
                     [] OTHER -> "clean_package_cache",
                   raw, "unasked"))
    /\ UNCHANGED <<pipeline_vars, text_vars, mpc>>

\* Choice 3: uninstall_all_packages runs when the answer, lower-cased, is y.
MenuUninstall(confirm) ==
    /\ mpc = "menu"
    /\ turns < MaxTurns
    /\ turns' = turns + 1
    /\ ops' = IF Lower(confirm) = "y"
              THEN Append(ops, Op("uninstall_all_packages", "3", confirm))
              ELSE ops
    /\ UNCHANGED <<pipeline_vars, text_vars, mpc>>

\* Choice 5: generate_requirements on self.packages.
MenuGenerate ==
    /\ mpc = "menu"
    /\ turns < MaxTurns
    /\ turns' = turns + 1
    /\ ops' = Append(ops, Op("generate_requirements", "5", "unasked"))
    /\ manifest' = generate_requirements(packages, manifest).file
    /\ UNCHANGED <<env, cont, vtask, vresult, packages, missing_packages, idx,
                   results, itask, ires, calls, exit_status, returned, raised,
                   pc, text_vars, mpc>>

\* The operations of choice 6, in order.
FullSetup ==
    <<"clean_package_cache", "uninstall_all_packages",
      "install_missing_packages", "generate_requirements">>

\* Choice 6: the four operations in a row; an exception of one of them (the
\* stop-th; 0 when none raises) ends the choice.
MenuFullSetup(stop) ==
    /\ mpc = "menu"
    /\ turns < MaxTurns
    /\ turns' = turns + 1
    /\ LET n == IF stop = 0 THEN Len(FullSetup) ELSE stop
       IN  /\ ops' = ops \o [i \in 1..n |-> Op(FullSetup[i], "6", "unasked")]
           /\ manifest' = IF n = Len(FullSetup)
                          THEN generate_requirements(packages, manifest).file
                          ELSE manifest
    /\ UNCHANGED <<env, cont, vtask, vresult, packages, missing_packages, idx,
                   results, itask, ires, calls, exit_status, returned, raised,
                   pc, text_vars, mpc>>

\* Choice 7: the loop ends.
MenuExit ==
    /\ mpc = "menu"
    /\ turns < MaxTurns
    /\ turns' = turns + 1
    /\ mpc' = "exit"
    /\ UNCHANGED <<pipeline_vars, text_vars, ops>>

NextMenu ==
    \/ \E raw \in MenuInputs : MenuInvalid(raw)
    \/ \E raw \in MenuInputs : MenuSingle(raw)
    \/ \E confirm \in ConfirmInputs : MenuUninstall(confirm)
    \/ MenuGenerate
    \/ \E stop \in 0..Len(FullSetup) : MenuFullSetup(stop)
    \/ MenuExit

SpecMenu == InitMenu /\ [][NextMenu]_vars

\* C11: in interactive mode uninstall_all_packages never runs unless the user
\* confirmed it for that choice, whichever menu entry runs it.
C11_UninstallOnlyConfirmed ==
    \A o \in Range(ops) :
        o.op = "uninstall_all_packages" => Lower(o.confirm) = "y"

(***************************************************************************)
(* Text.  A str is a sequence of one-character strings.                    *)
(***************************************************************************)
\* The str as a TLA+ string, to look it up in the tables above.
RECURSIVE Str(_)
Str(q) == IF q = << >> THEN "" ELSE q[1] \o Str(Tail(q))

\* The whitespace of the texts of the model (what str.strip and str.split cut).
Whitespace == {" ", "\t", "\n"}

Letters ==
    {"a", "b", "c", "d", "e", "f", "g", "h", "i", "j", "k", "l", "m", "n", "o",
     "p", "q", "r", "s", "t", "u", "v", "w", "x", "y", "z",
     "A", "B", "C", "D", "E", "F", "G", "H", "I", "J", "K", "L", "M", "N", "O",
     "P", "Q", "R", "S", "T", "U", "V", "W", "X", "Y", "Z"}

Digits == {"0", "1", "2", "3", "4", "5", "6", "7", "8", "9"}

\* str.isalpha and str.isalnum on one character.
IsAlpha(c) == c \in Letters
IsAlnum(c) == c \in Letters \cup Digits

\* s[i:] and s[:i], with Python's indices.
From(s, i) == SubSeq(s, i + 1, Len(s))
UpTo(s, i) == SubSeq(s, 1, i)

\* s.startswith(p)
StartsWith(s, p) == Len(s) >= Len(p) /\ UpTo(s, Len(p)) = p

\* The position (from 1) of the first occurrence of p in s, 0 when there is none.
Find(s, p) ==
    LET at == {i \in 1..(Len(s) - Len(p) + 1) : SubSeq(s, i, i + Len(p) - 1) = p}
    IN  IF Len(p) > Len(s) \/ at = {} THEN 0
        ELSE CHOOSE i \in at : \A j \in at : i <= j

\* p in s
Contains(s, p) == Find(s, p) # 0

\* s.split(sep): the pieces between the occurrences of sep, empty ones kept.
RECURSIVE Split(_, _)
Split(s, sep) ==
    IF Find(s, sep) = 0 THEN <<s>>
    ELSE <<UpTo(s, Find(s, sep) - 1)>>
            \o Split(From(s, Find(s, sep) - 1 + Len(sep)), sep)

\* s.lstrip(), s.rstrip() and s.strip()
RECURSIVE LStrip(_)
LStrip(s) ==
    IF s # << >> /\ s[1] \in Whitespace THEN LStrip(Tail(s)) ELSE s

RECURSIVE RStrip(_)
RStrip(s) ==
    IF s # << >> /\ s[Len(s)] \in Whitespace
    THEN RStrip(UpTo(s, Len(s) - 1)) ELSE s

Strip(s) == LStrip(RStrip(s))

\* s.split(): the runs of characters that are not whitespace.
RECURSIVE SplitWs(_)
SplitWs(s) ==
    LET t == LStrip(s)
        ws == {i \in 1..Len(t) : t[i] \in Whitespace}
        end == IF ws = {} THEN Len(t)
               ELSE (CHOOSE i \in ws : \A j \in ws : i <= j) - 1
    IN  IF t = << >> THEN << >>
        ELSE <<UpTo(t, end)>> \o SplitWs(From(t, end))

(***************************************************************************)
(* is_valid_package_name                                                   *)
(***************************************************************************)
\* The single characters of INVALID_PATTERNS.
InvalidChars ==
    {"%", "$", "{", "}", "<", ">", "\\", "/", "\"", "'", " ", "\t", "\n"}

INVALID_PATTERNS ==
    {<<"%", "(", "m", "o", "d", "u", "l", "e", ")", "s">>,
     <<"l", "o", "w", "e", "s", "t">>}
        \cup {<<c>> : c \in InvalidChars}

\* Mutant: only the first character is tested against the patterns.
HasInvalidPattern_First(name) ==
    name # << >> /\ \E pattern \in INVALID_PATTERNS : pattern = <<name[1]>>

\* any(pattern in name for pattern in self.INVALID_PATTERNS)
HasInvalidPattern(name) ==
    \E pattern \in INVALID_PATTERNS : Contains(name, pattern)

\* is_valid_package_name(name)
is_valid_package_name(raw) ==
    LET name == Strip(Split(raw, <<"#">>)[1])
    IN  /\ ~(name = << >> \/ Str(name) \in STDLIB_PACKAGES)
        /\ ~HasInvalidPattern(name)
        /\ \E i \in DOMAIN name : IsAlnum(name[i])
        /\ IsAlpha(name[1]) \/ name[1] = "_"
        /\ ~StartsWith(name, <<"_">>)

\* The characters of the names given to is_valid_package_name on its own.
NameChars == InvalidChars \cup {"o", "s", "_", "1", "#"}

\* All sequences over S of length at most n.
SeqsUpTo(S, n) == UNION {[1..k -> S] : k \in 0..n}

BoolStr(b) == IF b THEN "True" ELSE "False"

InitValid ==
    /\ PipelineIdle
    /\ MenuIdle
    /\ vname \in SeqsUpTo(NameChars, MaxNameLen)
    /\ vout = "idle"
    /\ ExtractIdle
    /\ ScanIdle

\* is_valid_package_name(vname) is called and returns.
ValidateName ==
    /\ vout = "idle"
    /\ vout' = BoolStr(is_valid_package_name(vname))
    /\ UNCHANGED <<pipeline_vars, menu_vars, vname, extract_vars, scan_vars>>

NextValid == ValidateName

SpecValid == InitValid /\ [][NextValid]_vars

\* C12 as stated: is_valid_package_name returns false for the empty name and
\* for every name with a forbidden character, wherever it stands.
C12_ForbiddenAnywhereRejected ==
    (vout # "idle" /\ (vname = << >> \/ \E i \in DOMAIN vname : vname[i] \in InvalidChars))
        => vout = "False"

\* The part of the name that counts: before the first "#".
BeforeHash(i) == \A j \in 1..i : vname[j] # "#"

\* C12 as amended: false for the empty name and for every name with a
\* forbidden character that stands before the first "#" and is not part of
\* the whitespace at the start or at the end of the text before that "#".
C12_ForbiddenInsideRejected ==
    vout # "idle" =>
        /\ vname = << >> => vout = "False"
        /\ \A i \in DOMAIN vname :
              (/\ vname[i] \in InvalidChars
               /\ BeforeHash(i)
               /\ \/ vname[i] \notin Whitespace
                  \/ /\ \E j \in 1..(i - 1) : vname[j] \notin Whitespace
                     /\ \E k \in (i + 1)..Len(vname) :
                           BeforeHash(k) /\ vname[k] \notin Whitespace)
                  => vout = "False"

C12_Witness ==
    /\ vout = "False"
    /\ Len(vname) = 3
    /\ vname[1] = "o"
    /\ vname[2] = " "
    /\ vname[3] = "s"

\* ---------------------------------------------------------------------
\* extract_imports: the names one file contributes
\* ---------------------------------------------------------------------

\* Most modules one import statement names.
MaxMods == 2

ImportKw == <<"i", "m", "p", "o", "r", "t", " ">>
FromKw == <<"f", "r", "o", "m", " ">>
AsKw == <<" ", "a", "s", " ">>

\* name.split(".")[0].split("#")[0].strip(), without the split on dots.
TopName_NoDots(s) == Strip(Split(s, <<"#">>)[1])

\* name.split(".")[0].split("#")[0].strip()
TopName(s) == Strip(Split(Split(s, <<".">>)[1], <<"#">>)[1])

\* for part in line[7:].split(","): part.strip().split(" as ")[0], then TopName
ImportCandidates(line) ==
    LET parts == Split(From(line, 7), <<",">>)
    IN  {TopName(Split(Strip(parts[i]), AsKw)[1]) : i \in DOMAIN parts}

\* parts = line.split(); parts[1] when there are two parts
FromCandidates(line) ==
    LET parts == SplitWs(line)
    IN  IF Len(parts) >= 2 THEN {TopName(parts[2])} ELSE {}

\* The names one line puts to the validity test.
Candidates(raw) ==
    LET line == Strip(raw)
    IN  IF line = << >> \/ StartsWith(line, <<"#">>) THEN {}
        ELSE IF StartsWith(line, ImportKw) THEN ImportCandidates(line)
        ELSE IF StartsWith(line, FromKw) THEN FromCandidates(line)
        ELSE {}

\* if name and self.is_valid_package_name(name): imports.add(name)
LineImports(raw) ==
    {name \in Candidates(raw) : name # << >> /\ is_valid_package_name(name)}

\* A file is its lines and the line at which reading or decoding raises
\* (0: it never does). The loop handles the lines before that one.
LinesRead(file) ==
    IF file.fail_at = 0 THEN file.lines
    ELSE SubSeq(file.lines, 1, file.fail_at - 1)

\* The except clause is outside the loop and the function ends with
\* return imports: what was added before the exception is returned.
extract_imports(file) ==
    UNION {LineImports(LinesRead(file)[i]) : i \in DOMAIN LinesRead(file)}

\* --- the source text the files are written from ---

os == <<"o", "s">>
rq == <<"r", "q">>
np == <<"n", "p">>

\* Dotted module paths: a stdlib module, a third-party one, submodules of
\* both, a private module.
Paths == {<<os>>, <<rq>>, <<os, <<"p">>>>, <<rq, <<"p">>>>, << <<"_", "p">> >>}

Aliases == {<< >>, <<"z">>}

\* No comment, a comment, a comment with a comma in it.
Comments == {<< >>, <<"c">>, <<"c", ",", " ", "d">>}

Mods == [path : Paths, alias : Aliases]

ModLists == UNION {[1..k -> Mods] : k \in 1..MaxMods}

ImportStmts ==
    [kind : {"import"}, indent : 0..1, mods : ModLists, comment : Comments]

\* from <path> import x, from .<path> import x, y
FromStmts ==
    [kind : {"from"}, indent : {0}, level : 0..1, path : Paths,
     names : {<<"x">>, <<"x", ",", " ", "y">>}, comment : {<< >>}]

\* A blank line, a comment line, a line of code, a plain import.
OtherLines ==
    {<< >>, <<"#", " ">> \o ImportKw \o rq, <<"x", " ", "=", " ", "1">>}

OtherStmts == [kind : {"other"}, text : OtherLines]

RECURSIVE Join(_, _)
Join(ss, sep) ==
    IF ss = << >> THEN << >>
    ELSE IF Len(ss) = 1 THEN ss[1]
    ELSE ss[1] \o sep \o Join(Tail(ss), sep)

RenderMod(m) ==
    Join(m.path, <<".">>) \o (IF m.alias = << >> THEN << >> ELSE AsKw \o m.alias)

RenderComment(c) == IF c = << >> THEN << >> ELSE <<" ", " ", "#", " ">> \o c

Indent(n) == [i \in 1..n |-> " "]

Dots(n) == [i \in 1..n |-> "."]

RenderStmt(st) ==
    CASE st.kind = "import" ->
            Indent(st.indent) \o ImportKw
                \o Join([i \in DOMAIN st.mods |-> RenderMod(st.mods[i])], <<",", " ">>)
                \o RenderComment(st.comment)
      [] st.kind = "from" ->
            FromKw \o Dots(st.level) \o Join(st.path, <<".">>)
                \o <<" ">> \o ImportKw \o st.names
      [] OTHER -> st.text

\* A file: one import statement, alone or after one other line.
NpLine == [kind |-> "import", indent |-> 0,
           mods |-> <<[path |-> <<np>>, alias |-> << >>]>>, comment |-> << >>]

Leading == OtherStmts \cup {NpLine}

SourceFiles ==
    LET last == ImportStmts \cup FromStmts
    IN  {<<st>> : st \in last} \cup {<<pre, st>> : pre \in Leading, st \in last}

InitExtract ==
    /\ PipelineIdle
    /\ MenuIdle
    /\ ValidIdle
    /\ ScanIdle
    /\ xstmts \in SourceFiles
    /\ xlines = [i \in DOMAIN xstmts |-> RenderStmt(xstmts[i])]
    /\ xpc = "ready"
    /\ ximports = {}

\* extract_imports(file) is called on a file that reads to its end.
Extract ==
    /\ xpc = "ready"
    /\ ximports' = extract_imports([lines |-> xlines, fail_at |-> 0])
    /\ xpc' = "done"
    /\ UNCHANGED <<pipeline_vars, menu_vars, valid_vars, xstmts, xlines, scan_vars>>

NextExtract == Extract

SpecExtract == InitExtract /\ [][NextExtract]_vars

\* The top-level modules a statement imports.
StmtTops(st) ==
    CASE st.kind = "import" -> {st.mods[i].path[1] : i \in DOMAIN st.mods}
      [] st.kind = "from" -> IF st.level = 0 THEN {st.path[1]} ELSE {}
      [] OTHER -> {}

Tops == UNION {StmtTops(xstmts[i]) : i \in DOMAIN xstmts}

InStdlibTable(n) == Str(n) \in STDLIB_PACKAGES

\* Every import line of the file names modules of the stdlib table only.
StdlibOnly ==
    \A i \in DOMAIN xstmts :
        xstmts[i].kind \in {"import", "from"} =>
            /\ xstmts[i].kind = "from" => xstmts[i].level = 0
            /\ \A t \in StmtTops(xstmts[i]) : InStdlibTable(t)

\* C13: every name extract_imports returns is non-empty, has an
\* alphanumeric character, starts with a letter or an underscore and is not
\* in the stdlib table; a file whose import lines name stdlib-table modules
\* only yields the empty set.
C13_ExtractedNamesValid ==
    xpc = "done" =>
        /\ \A n \in ximports :
              /\ n # << >>
              /\ \E i \in DOMAIN n : IsAlnum(n[i])
              /\ IsAlpha(n[1]) \/ n[1] = "_"
              /\ ~InStdlibTable(n)
        /\ StdlibOnly => ximports = {}

HasComma(c) == \E i \in DOMAIN c : c[i] = ","

C17_CommentContributesNoName ==
    xpc = "done" => ximports \subseteq Tops

\* ---------------------------------------------------------------------
\* detect_missing_packages: the loop over the files of the tree
\* ---------------------------------------------------------------------

\* Most files in the tree.
MaxFiles == 2

ImportLine(path) ==
    RenderStmt([kind |-> "import", indent |-> 0,
                mods |-> <<[path |-> path, alias |-> << >>]>>, comment |-> << >>])

FromLine(path) ==
    RenderStmt([kind |-> "from", indent |-> 0, level |-> 0, path |-> path,
                names |-> <<"x">>, comment |-> << >>])

FileTexts ==
    {<<ImportLine(<<rq>>)>>,
     <<ImportLine(<<rq>>), ImportLine(<<np>>)>>,
     <<ImportLine(<<os>>), FromLine(<<np>>)>>}

\* A file that reads to its end, or whose reading raises at one of its lines
\* (a file that cannot be opened or decoded at all raises at its first).
Files == UNION {[lines : {t}, fail_at : 0..Len(t)] : t \in FileTexts}

InitScan ==
    /\ PipelineIdle
    /\ MenuIdle
    /\ ValidIdle
    /\ ExtractIdle
    /\ python_files \in UNION {[1..n -> Files] : n \in 1..MaxFiles}
    /\ file_i = 0
    /\ scan_imports = {}

\* One turn of the loop: all_imports.update(self.extract_imports(file))
ScanFile ==
    /\ file_i < Len(python_files)
    /\ scan_imports' = scan_imports \cup extract_imports(python_files[file_i + 1])
    /\ file_i' = file_i + 1
    /\ UNCHANGED <<pipeline_vars, menu_vars, valid_vars, extract_vars, python_files>>

NextScan == ScanFile

SpecScan == InitScan /\ [][NextScan]_vars

\* C15: a file whose reading or decoding fails, at its first line or after
\* some of its lines were handled, contributes no import, and the scan goes
\* on: the names gathered so far are those of the files read to their end.
C15_FailedFileContributesNothing ==
    scan_imports =
        UNION {extract_imports(python_files[i]) :
                  i \in {j \in 1..file_i : python_files[j].fail_at = 0}}
====
